---- MODULE Spec2Model ----
(***************************************************************************)
(* Model of src/src/05-objects-tasks.js: the css selector builder (class   *)
(* Test and the cssSelectorBuilder facade), the Rectangle factory and the  *)
(* getJSON / fromJSON pair.                                                *)
(*                                                                         *)
(* Strings are sequences of one-character strings, so that concatenation   *)
(* and prefixes are computed as the code computes them.                    *)
(***************************************************************************)
EXTENDS Integers, Sequences, FiniteSets, TLC

VARIABLES heap, twin, log, clean, recent, rendered, result,   \* selector builder
          rect, assigned, area,                   \* Rectangle
          obj, json, back                         \* getJSON / fromJSON

builder == <<heap, twin, log, clean, recent, rendered, result>>
shapes == <<rect, assigned, area>>
codec == <<obj, json, back>>
vars == <<builder, shapes, codec>>

(* ------------------------------ bounds --------------------------------- *)
MaxFrags == 4      \* returned calls on the instance explored alone
MaxChain == 8      \* returned calls on an instance that has not thrown
MaxCount == 3      \* value a counter may reach
MaxShort == 4      \* returned calls on an instance that is also rendered
MaxInst == 3       \* Test instances alive at once
MaxCalls == 3      \* calls in all, several instances

MaxSide == 4       \* largest width or height, positive or negative
MaxItems == 2      \* elements of an array, members of an object

Values == {<<"a">>, <<"b">>}      \* fragment values passed by the caller
Names == {<<"a">>}                \* the same, where many calls are explored
Combinators == {<<"+">>, <<" ">>} \* combinator strings passed to combine

(* ----------------------------- Rectangle ------------------------------- *)
Sides == (0 - MaxSide)..MaxSide

Rectangle(width, height) == [width |-> width, height |-> height]

\* (a variant that squares the width)
getArea_square(this) == this.width * this.width

getArea(this) == this.width * this.height

\* rect     : the object Rectangle returned, if any (a sequence of 0 or 1)
\* assigned : the width and height the caller last passed or assigned, and
\*            whether an assignment was made since Rectangle returned
\* area     : the number getArea() returned since the latest assignment
Make_Rectangle(w, h) ==
  /\ rect = <<>>
  /\ rect' = <<Rectangle(w, h)>>
  /\ assigned' = <<[width |-> w, height |-> h, changed |-> FALSE]>>
  /\ area' = <<>>
  /\ UNCHANGED <<builder, codec>>

\* the caller assigns r.width = w
Set_width(w) ==
  /\ rect # <<>>
  /\ rect' = <<[rect[1] EXCEPT !.width = w]>>
  /\ assigned' = <<[assigned[1] EXCEPT !.width = w, !.changed = TRUE]>>
  /\ area' = <<>>
  /\ UNCHANGED <<builder, codec>>

\* the caller assigns r.height = h
Set_height(h) ==
  /\ rect # <<>>
  /\ rect' = <<[rect[1] EXCEPT !.height = h]>>
  /\ assigned' = <<[assigned[1] EXCEPT !.height = h, !.changed = TRUE]>>
  /\ area' = <<>>
  /\ UNCHANGED <<builder, codec>>

Call_getArea ==
  /\ rect # <<>>
  /\ area' = <<getArea(rect[1])>>
  /\ UNCHANGED <<rect, assigned, builder, codec>>

(* ------------------------- getJSON / fromJSON -------------------------- *)
\* A JavaScript value.  t is its type tag; n the number (or 1/0 for a
\* boolean); s the characters of a string; keys and kids the own property
\* names and values of an object in property order (kids alone for an
\* array); proto the name of its prototype object.
JS(t, n, s, keys, kids, proto) ==
  [t |-> t, n |-> n, s |-> s, keys |-> keys, kids |-> kids, proto |-> proto]

Num(n) == JS("number", n, <<>>, <<>>, <<>>, "")
NaN == JS("NaN", 0, <<>>, <<>>, <<>>, "")
Str(s) == JS("string", 0, s, <<>>, <<>>, "")
True == JS("boolean", 1, <<>>, <<>>, <<>>, "")
False == JS("boolean", 0, <<>>, <<>>, <<>>, "")
Null == JS("null", 0, <<>>, <<>>, <<>>, "")
Undefined == JS("undefined", 0, <<>>, <<>>, <<>>, "")
Arr(kids) == JS("array", 0, <<>>, <<>>, kids, "Array.prototype")
Obj(keys, kids) == JS("object", 0, <<>>, keys, kids, "Object.prototype")

IsObject(v) == v.t \in {"array", "object"}

Digits == <<"0", "1", "2", "3", "4", "5", "6", "7", "8", "9">>

\* Number::toString of an integer
RECURSIVE NatToString(_)
NatToString(n) ==
  IF n < 10 THEN <<Digits[n + 1]>>
  ELSE NatToString(n \div 10) \o <<Digits[(n % 10) + 1]>>

NumberToString(n) ==
  IF n < 0 THEN <<"-">> \o NatToString(0 - n) ELSE NatToString(n)

\* QuoteJSONString, on the characters the model draws strings from
RECURSIVE QuoteChars(_)
QuoteChars(s) ==
  IF s = <<>> THEN <<>>
  ELSE (IF Head(s) \in {"\"", "\\"} THEN <<"\\", Head(s)>> ELSE <<Head(s)>>)
       \o QuoteChars(Tail(s))

\* (a variant that does not escape)
Quote_raw(s) == <<"\"">> \o s \o <<"\"">>

Quote(s) == <<"\"">> \o QuoteChars(s) \o <<"\"">>

\* SerializeJSONProperty of a value that is not undefined
RECURSIVE Serialize(_), SerializeArray(_), SerializeObject(_, _, _)
Serialize(v) ==
  CASE v.t = "null" -> <<"n", "u", "l", "l">>
    [] v.t = "boolean" ->
         IF v.n = 1 THEN <<"t", "r", "u", "e">> ELSE <<"f", "a", "l", "s", "e">>
    [] v.t = "number" -> NumberToString(v.n)
    [] v.t = "NaN" -> <<"n", "u", "l", "l">>
    [] v.t = "string" -> Quote(v.s)
    [] v.t = "array" -> <<"[">> \o SerializeArray(v.kids) \o <<"]">>
    [] v.t = "object" -> <<"{">> \o SerializeObject(v.keys, v.kids, TRUE) \o <<"}">>

\* the elements of an array, undefined written as null
SerializeArray(kids) ==
  IF kids = <<>> THEN <<>>
  ELSE (IF Head(kids).t = "undefined" THEN <<"n", "u", "l", "l">>
        ELSE Serialize(Head(kids)))
       \o (IF Len(kids) > 1 THEN <<",">> ELSE <<>>)
       \o SerializeArray(Tail(kids))

\* the members of an object, those whose value is undefined left out
SerializeObject(keys, kids, first) ==
  IF keys = <<>> THEN <<>>
  ELSE IF Head(kids).t = "undefined"
       THEN SerializeObject(Tail(keys), Tail(kids), first)
       ELSE (IF first THEN <<>> ELSE <<",">>)
            \o Quote(Head(keys)) \o <<":">> \o Serialize(Head(kids))
            \o SerializeObject(Tail(keys), Tail(kids), FALSE)

\* JSON.stringify(value): a string, or undefined for undefined
JSONstringify(v) == IF v.t = "undefined" THEN Undefined ELSE Str(Serialize(v))

getJSON(o) == JSONstringify(o)

\* ---- JSON.parse: a recursive-descent parser over the characters.
\* A parse step returns ok, the value and the position after it.
\* Numbers are integers without fraction or exponent, and the escapes
\* are those of QuoteChars: the texts the model parses use no others.
Parsed(v, p) == [ok |-> TRUE, val |-> v, pos |-> p]
NoParse == [ok |-> FALSE, val |-> Undefined, pos |-> 0]

At(s, i) == IF i <= Len(s) THEN s[i] ELSE "EOF"

RECURSIVE SkipWs(_, _)
SkipWs(s, i) == IF At(s, i) = " " THEN SkipWs(s, i + 1) ELSE i

Word(s, i, w) ==
  /\ i + Len(w) - 1 <= Len(s)
  /\ SubSeq(s, i, i + Len(w) - 1) = w

DigitOf(c) == CHOOSE d \in 0..9 : Digits[d + 1] = c
IsDigit(c) == \E d \in 0..9 : Digits[d + 1] = c

RECURSIVE ParseDigits(_, _, _)
ParseDigits(s, i, acc) ==
  IF IsDigit(At(s, i)) THEN ParseDigits(s, i + 1, acc * 10 + DigitOf(s[i]))
  ELSE [n |-> acc, pos |-> i]

ParseNat(s, i) ==
  IF At(s, i) = "0" THEN Parsed(Num(0), i + 1)
  ELSE IF IsDigit(At(s, i))
       THEN LET d == ParseDigits(s, i, 0) IN Parsed(Num(d.n), d.pos)
       ELSE NoParse

ParseNumber(s, i) ==
  IF At(s, i) = "-"
  THEN LET r == ParseNat(s, i + 1) IN
         IF r.ok THEN Parsed(Num(0 - r.val.n), r.pos) ELSE NoParse
  ELSE ParseNat(s, i)

\* the characters of a string, from after its opening quote
RECURSIVE ParseChars(_, _, _)
ParseChars(s, i, acc) ==
  CASE At(s, i) = "EOF" -> NoParse
    [] At(s, i) = "\"" -> Parsed(Str(acc), i + 1)
    [] At(s, i) = "\\" ->
         IF At(s, i + 1) \in {"\"", "\\", "/"}
         THEN ParseChars(s, i + 2, Append(acc, s[i + 1]))
         ELSE NoParse
    [] OTHER -> ParseChars(s, i + 1, Append(acc, s[i]))

ParseString(s, i) == IF At(s, i) = "\"" THEN ParseChars(s, i + 1, <<>>) ELSE NoParse

\* index of key k in keys, 0 when absent
KeyIndex(keys, k) ==
  IF \E j \in 1..Len(keys) : keys[j] = k
  THEN CHOOSE j \in 1..Len(keys) : keys[j] = k
  ELSE 0

\* CreateDataProperty: a repeated key keeps its place and takes the new value
Define(o, k, v) ==
  LET j == KeyIndex(o.keys, k) IN
    IF j = 0
    THEN [o EXCEPT !.keys = Append(@, k), !.kids = Append(@, v)]
    ELSE [o EXCEPT !.kids[j] = v]

RECURSIVE ParseValue(_, _), ParseElements(_, _, _), ParseMembers(_, _, _)
ParseValue(s, i0) ==
  LET i == SkipWs(s, i0) IN
  CASE Word(s, i, <<"n", "u", "l", "l">>) -> Parsed(Null, i + 4)
    [] Word(s, i, <<"t", "r", "u", "e">>) -> Parsed(True, i + 4)
    [] Word(s, i, <<"f", "a", "l", "s", "e">>) -> Parsed(False, i + 5)
    [] At(s, i) = "\"" -> ParseString(s, i)
    [] At(s, i) = "[" ->
         IF At(s, SkipWs(s, i + 1)) = "]"
         THEN Parsed(Arr(<<>>), SkipWs(s, i + 1) + 1)
         ELSE ParseElements(s, i + 1, <<>>)
    [] At(s, i) = "{" ->
         IF At(s, SkipWs(s, i + 1)) = "}"
         THEN Parsed(Obj(<<>>, <<>>), SkipWs(s, i + 1) + 1)
         ELSE ParseMembers(s, i + 1, Obj(<<>>, <<>>))
    [] OTHER -> ParseNumber(s, i)

\* one or more elements, then the closing bracket
ParseElements(s, i, acc) ==
  LET r == ParseValue(s, i) IN
    IF ~r.ok THEN NoParse
    ELSE LET j == SkipWs(s, r.pos) IN
           CASE At(s, j) = "," -> ParseElements(s, j + 1, Append(acc, r.val))
             [] At(s, j) = "]" -> Parsed(Arr(Append(acc, r.val)), j + 1)
             [] OTHER -> NoParse

\* one or more members, then the closing brace
ParseMembers(s, i, acc) ==
  LET k == ParseString(s, SkipWs(s, i)) IN
    IF ~k.ok THEN NoParse
    ELSE LET c == SkipWs(s, k.pos) IN
      IF At(s, c) # ":" THEN NoParse
      ELSE LET r == ParseValue(s, c + 1) IN
        IF ~r.ok THEN NoParse
        ELSE LET j == SkipWs(s, r.pos)
                 o == Define(acc, k.val.s, r.val) IN
               CASE At(s, j) = "," -> ParseMembers(s, j + 1, o)
                 [] At(s, j) = "}" -> Parsed(o, j + 1)
                 [] OTHER -> NoParse

\* outcome of a call: "ok" and the value returned, or the Error thrown
Returns(v) == [res |-> "ok", val |-> v]
Throws(e) == [res |-> e, val |-> Undefined]

\* JSON.parse(text); text undefined is read as the characters "undefined"
JSONparse(text) ==
  IF text.t # "string" THEN Throws("SyntaxError")
  ELSE LET r == ParseValue(text.s, 1) IN
         IF r.ok /\ SkipWs(text.s, r.pos) = Len(text.s) + 1
         THEN Returns(r.val)
         ELSE Throws("SyntaxError")

\* Object.setPrototypeOf(O, proto), proto an object
setPrototypeOf(O, proto) ==
  IF O.t \in {"null", "undefined"} THEN Throws("TypeError")
  ELSE IF ~IsObject(O) THEN Returns(O)
  ELSE Returns([O EXCEPT !.proto = proto.id])

fromJSON(proto, text) ==
  LET p == JSONparse(text) IN
    IF p.res # "ok" THEN p ELSE setPrototypeOf(p.val, proto)

\* ---- the values and templates the codec is driven with
Keys == {<<"a">>, <<"b">>}

Leaves ==
  {Num(0), Num(12), Num(0 - 3), Str(<<>>), Str(<<"a">>), Str(<<"\"", "\\">>),
   True, False, Null, Undefined, NaN}

Inner ==
  {Arr(<<>>), Arr(<<Num(12)>>), Arr(<<Undefined>>), Obj(<<>>, <<>>),
   Obj(<<<<"a">>>>, <<Num(0)>>), Obj(<<<<"b">>>>, <<Undefined>>)}

Items == Leaves \cup Inner

SeqsUpTo(S, n) == UNION {[1..m -> S] : m \in 0..n}

Distinct(ks) == \A i, j \in 1..Len(ks) : i # j => ks[i] # ks[j]

Universe ==
  Leaves
  \cup {Arr(kids) : kids \in SeqsUpTo(Items, MaxItems)}
  \cup UNION {{Obj(ks, kids) : kids \in [1..Len(ks) -> Items]} :
                ks \in {k \in SeqsUpTo(Keys, MaxItems) : Distinct(k)}}

\* templates: a prototype object with own members of its own
Protos ==
  {[id |-> "Circle.prototype", keys |-> <<<<"a">>>>, kids |-> <<Num(7)>>],
   [id |-> "Plain.prototype", keys |-> <<>>, kids |-> <<>>]}

\* obj  : the value handed to getJSON
\* json : what getJSON returned, if called (a sequence of 0 or 1)
\* back : the outcome of fromJSON on it and the template used, if called
NoCodec ==
  /\ obj = Undefined
  /\ json = <<>>
  /\ back = <<>>

Do_getJSON ==
  /\ json = <<>>
  /\ json' = <<getJSON(obj)>>
  /\ UNCHANGED <<obj, back, builder, shapes>>

Do_fromJSON(proto) ==
  /\ json # <<>> /\ back = <<>>
  /\ back' = <<[out |-> fromJSON(proto, json[1]), template |-> proto.id]>>
  /\ UNCHANGED <<obj, json, builder, shapes>>

(* --------------------------- class Test -------------------------------- *)
CardinalityError == "Element, id and pseudo-element should not occur more then one time inside the selector"
OrderError == "Selector parts should be arranged in the following order: element, id, class, attribute, pseudo-class, pseudo-element"

\* outcome of a method call: the object as the call leaves it, and either
\* "ok" (returns this) or the message of the Error thrown
Return(t) == [obj |-> t, res |-> "ok"]
Throw(t, msg) == [obj |-> t, res |-> msg]

\* (a variant that keeps the marker of an earlier selector)
constructor_stale(val) ==
  [string |-> val, idc |-> 0, selector |-> 0, psel |-> 0, prev |-> "psel"]

constructor(val) ==
  [string |-> val, idc |-> 0, selector |-> 0, psel |-> 0, prev |-> ""]

\* TRUE when exception1() throws
exception1(t) == t.idc = 2 \/ t.selector = 2 \/ t.psel = 2

\* (a variant that forgets the instance may still be empty)
exception2_neverEmpty(t, value) == t.prev # value

\* TRUE when exception2(value) throws
exception2(t, value) == t.prev # value /\ t.prev # ""

element(t, value) ==
  LET t1 == [t EXCEPT !.selector = @ + 1] IN
  IF exception1(t1) THEN Throw(t1, CardinalityError)
  ELSE IF exception2(t1, "element") THEN Throw(t1, OrderError)
  ELSE Return([t1 EXCEPT !.prev = "element", !.string = @ \o value])

\* (a variant that hands the text over and starts afresh)
stringify_flush(t) == [obj |-> [t EXCEPT !.string = <<>>], ret |-> t.string]

\* the object as the call leaves it, and the text returned
stringify(t) == [obj |-> t, ret |-> t.string]

\* variant: the marker is compared with 'id', the method's own category
id_afterId(t, value) ==
  LET t1 == [t EXCEPT !.idc = @ + 1] IN
  IF exception1(t1) THEN Throw(t1, CardinalityError)
  ELSE IF exception2(t1, "id") THEN Throw(t1, OrderError)
  ELSE IF t1.prev = "psel" THEN Throw(t1, OrderError)
  ELSE Return([t1 EXCEPT !.prev = "id", !.string = @ \o <<"#">> \o value])

id(t, value) ==
  LET t1 == [t EXCEPT !.idc = @ + 1] IN
  IF exception1(t1) THEN Throw(t1, CardinalityError)
  ELSE IF exception2(t1, "element") THEN Throw(t1, OrderError)
  ELSE IF t1.prev = "psel" THEN Throw(t1, OrderError)
  ELSE Return([t1 EXCEPT !.prev = "id", !.string = @ \o <<"#">> \o value])

class(t, value) ==
  IF t.prev = "attr" THEN Throw(t, OrderError)
  ELSE Return([t EXCEPT !.prev = "id", !.string = @ \o <<".">> \o value])

\* class() as it would be with a marker of its own in line 156
class_ownMarker(t, value) ==
  IF t.prev = "attr" THEN Throw(t, OrderError)
  ELSE Return([t EXCEPT !.prev = "class", !.string = @ \o <<".">> \o value])

\* (a variant that leaves the bracket open)
attr_unclosed(t, value) ==
  IF t.prev = "pscl" THEN Throw(t, OrderError)
  ELSE Return([t EXCEPT !.prev = "attr", !.string = @ \o <<"[">> \o value])

attr(t, value) ==
  IF t.prev = "pscl" THEN Throw(t, OrderError)
  ELSE Return([t EXCEPT !.prev = "attr",
                        !.string = @ \o <<"[">> \o value \o <<"]">>])

pseudoClass(t, value) ==
  IF t.prev = "psel" THEN Throw(t, OrderError)
  ELSE Return([t EXCEPT !.prev = "pscl", !.string = @ \o <<":">> \o value])

\* variant: the fragment is written before the counter is examined
pseudoElement_eager(t, value) ==
  LET t1 == [t EXCEPT !.prev = "psel", !.string = @ \o <<":", ":">> \o value]
      t2 == [t1 EXCEPT !.psel = @ + 1]
  IN IF exception1(t2) THEN Throw(t2, CardinalityError) ELSE Return(t2)

pseudoElement(t, value) ==
  LET t1 == [t EXCEPT !.prev = "psel"]
      t2 == [t1 EXCEPT !.psel = @ + 1] IN
  IF exception1(t2) THEN Throw(t2, CardinalityError)
  ELSE Return([t2 EXCEPT !.string = @ \o <<":", ":">> \o value])

\* variant: the receiver takes the counters and marker of the right operand
combine_inherit(h, this, selector1, combinator, selector2) ==
  [h EXCEPT ![this] =
     [h[selector2] EXCEPT !.string =
        h[this].string \o h[selector1].string \o <<" ">> \o combinator
          \o <<" ">> \o h[selector2].string]]

\* variant: the text is accumulated on the left operand as well
combine_onto(h, this, selector1, combinator, selector2) ==
  LET joined == h[selector1].string \o <<" ">> \o combinator \o <<" ">>
                  \o h[selector2].string
  IN [h EXCEPT ![this].string = @ \o joined, ![selector1].string = joined]

\* (a variant that joins the operands without the spaces)
combine_tight(h, this, selector1, combinator, selector2) ==
  [h EXCEPT ![this].string =
     @ \o h[selector1].string \o combinator \o h[selector2].string]

\* this, selector1 and selector2 are references into the heap h, which the
\* call returns as it leaves it; this.string is read before the template
\* literal is evaluated, selector1 is rendered before selector2
combine(h, this, selector1, combinator, selector2) ==
  LET string0 == h[this].string
      a == stringify(h[selector1])
      h1 == [h EXCEPT ![selector1] = a.obj]
      b == stringify(h1[selector2])
      h2 == [h1 EXCEPT ![selector2] = b.obj]
  IN [h2 EXCEPT ![this].string =
        string0 \o a.ret \o <<" ">> \o combinator \o <<" ">> \o b.ret]

(* ------------------------- calls and bookkeeping ----------------------- *)
\* heap     : the Test instances created so far
\* twin     : the same instances as class_ownMarker would leave them, each
\*            receiving the calls its counterpart in heap receives
\* log      : per instance, the calls that returned normally, in order; a
\*            combine call with the logs its two operands had
\* clean    : per instance, no call on it has thrown so far
\* recent   : per instance, those of element, id and pseudoElement whose
\*            latest call returned normally
\* rendered : per instance, the text its latest stringify() returned, if any
\* result   : "ok" or the message of the Error thrown by the latest call
FragOps == {"element", "id", "class", "attr", "pseudoClass", "pseudoElement"}
Singular == {"element", "id", "pseudoElement"}

\* dispatch of a fragment method by name
Invoke(op, t, value) ==
  CASE op = "element" -> element(t, value)
    [] op = "id" -> id(t, value)
    [] op = "class" -> class(t, value)
    [] op = "attr" -> attr(t, value)
    [] op = "pseudoClass" -> pseudoClass(t, value)
    [] op = "pseudoElement" -> pseudoElement(t, value)

\* the same dispatch on the builder whose class() keeps a marker of its own
InvokeVariant(op, t, value) ==
  IF op = "class" THEN class_ownMarker(t, value) ELSE Invoke(op, t, value)

Instances == 1..Len(heap)

Entry(kind, value, left, right) ==
  [kind |-> kind, value |-> value, left |-> left, right |-> right]

\* instance i receives the fragment call op(value); an Error thrown is
\* caught by the caller, who keeps the instance
Call(op, i, value) ==
  /\ i \in Instances
  /\ LET r == Invoke(op, heap[i], value) IN
       /\ heap' = [heap EXCEPT ![i] = r.obj]
       /\ twin' = [twin EXCEPT ![i] = InvokeVariant(op, twin[i], value).obj]
       /\ log' = IF r.res = "ok"
                  THEN [log EXCEPT ![i] = Append(@, Entry(op, value, <<>>, <<>>))]
                  ELSE log
       /\ clean' = [clean EXCEPT ![i] = @ /\ r.res = "ok"]
       /\ recent' = IF op \notin Singular THEN recent
                     ELSE IF r.res = "ok"
                          THEN [recent EXCEPT ![i] = @ \cup {op}]
                          ELSE [recent EXCEPT ![i] = @ \ {op}]
       /\ result' = r.res
  /\ UNCHANGED <<rendered, shapes, codec>>

\* cssSelectorBuilder.<op>(value): new Test('').<op>(value)
Facade(op, value) ==
  /\ Len(heap) < MaxInst
  /\ LET r == Invoke(op, constructor(<<>>), value) IN
       /\ IF r.res = "ok"
          THEN /\ heap' = Append(heap, r.obj)
               /\ twin' = Append(twin,
                    InvokeVariant(op, constructor(<<>>), value).obj)
               /\ log' = Append(log, <<Entry(op, value, <<>>, <<>>)>>)
               /\ clean' = Append(clean, TRUE)
               /\ recent' = Append(recent, {op} \cap Singular)
               /\ rendered' = Append(rendered, <<>>)
          ELSE UNCHANGED <<heap, twin, log, clean, recent, rendered>>
       /\ result' = r.res
  /\ UNCHANGED <<shapes, codec>>

Do_element(i, v) == Call("element", i, v)
Do_id(i, v) == Call("id", i, v)
Do_class(i, v) == Call("class", i, v)
Do_attr(i, v) == Call("attr", i, v)
Do_pseudoClass(i, v) == Call("pseudoClass", i, v)
Do_pseudoElement(i, v) == Call("pseudoElement", i, v)

Do_stringify(i) ==
  /\ i \in Instances
  /\ LET r == stringify(heap[i]) IN
       /\ heap' = [heap EXCEPT ![i] = r.obj]
       /\ twin' = [twin EXCEPT ![i] = stringify(twin[i]).obj]
       /\ rendered' = [rendered EXCEPT ![i] = <<r.ret>>]
  /\ result' = "ok"
  /\ UNCHANGED <<log, clean, recent, shapes, codec>>

\* instance i receives combine(heap[a], c, heap[b])
Do_combine(i, a, c, b) ==
  /\ i \in Instances /\ a \in Instances /\ b \in Instances
  /\ heap' = combine(heap, i, a, c, b)
  /\ twin' = combine(twin, i, a, c, b)
  /\ log' = [log EXCEPT ![i] = Append(@, Entry("combine", c, log[a], log[b]))]
  /\ result' = "ok"
  /\ UNCHANGED <<clean, recent, rendered, shapes, codec>>

cssSelectorBuilder_element(v) == Facade("element", v)
cssSelectorBuilder_id(v) == Facade("id", v)
cssSelectorBuilder_class(v) == Facade("class", v)
cssSelectorBuilder_attr(v) == Facade("attr", v)
cssSelectorBuilder_pseudoClass(v) == Facade("pseudoClass", v)
cssSelectorBuilder_pseudoElement(v) == Facade("pseudoElement", v)

cssSelectorBuilder_combine(a, c, b) ==
  /\ Len(heap) < MaxInst
  /\ a \in Instances /\ b \in Instances
  /\ LET test == Len(heap) + 1 IN
       /\ heap' = combine(Append(heap, constructor(<<>>)), test, a, c, b)
       /\ twin' = combine(Append(twin, constructor(<<>>)), test, a, c, b)
  /\ log' = Append(log, <<Entry("combine", c, log[a], log[b])>>)
  /\ clean' = Append(clean, TRUE)
  /\ recent' = Append(recent, {})
  /\ rendered' = Append(rendered, <<>>)
  /\ result' = "ok"
  /\ UNCHANGED <<shapes, codec>>

NoBuilder ==
  /\ heap = <<>>
  /\ twin = <<>>
  /\ log = <<>>
  /\ clean = <<>>
  /\ recent = <<>>
  /\ rendered = <<>>
  /\ result = "ok"

NoRectangle ==
  /\ rect = <<>>
  /\ assigned = <<>>
  /\ area = <<>>

Init == NoBuilder /\ NoRectangle /\ NoCodec

(* ------------------- exploration limits of the caller ------------------ *)
\* instance i has returned normally from fewer than n calls, and a further
\* call leaves its counters within MaxCount
Within(i, n) ==
  /\ Len(log[i]) < n
  /\ heap[i].idc < MaxCount
  /\ heap[i].selector < MaxCount
  /\ heap[i].psel < MaxCount

\* calls that returned so far, over all instances
RECURSIVE SumLen(_)
SumLen(s) == IF s = <<>> THEN 0 ELSE Len(Head(s)) + SumLen(Tail(s))

\* instances that have thrown
Thrown == Cardinality({i \in Instances : ~clean[i]})

Budget == SumLen(log) + Thrown < MaxCalls

Fresh(i, n) == clean[i] /\ Within(i, n)

(* One builder instance, driven by every sequence of fragment calls. *)
Next ==
  \/ \E v \in Names : heap = <<>> /\ cssSelectorBuilder_element(v)
  \/ \E v \in Names : heap = <<>> /\ cssSelectorBuilder_id(v)
  \/ \E v \in Names : heap = <<>> /\ cssSelectorBuilder_class(v)
  \/ \E v \in Names : heap = <<>> /\ cssSelectorBuilder_attr(v)
  \/ \E v \in Names : heap = <<>> /\ cssSelectorBuilder_pseudoClass(v)
  \/ \E v \in Names : heap = <<>> /\ cssSelectorBuilder_pseudoElement(v)
  \/ \E i \in Instances, v \in Names : Within(i, MaxFrags) /\ Do_element(i, v)
  \/ \E i \in Instances, v \in Names : Within(i, MaxFrags) /\ Do_id(i, v)
  \/ \E i \in Instances, v \in Names : Within(i, MaxFrags) /\ Do_class(i, v)
  \/ \E i \in Instances, v \in Names : Within(i, MaxFrags) /\ Do_attr(i, v)
  \/ \E i \in Instances, v \in Names :
       Within(i, MaxFrags) /\ Do_pseudoClass(i, v)
  \/ \E i \in Instances, v \in Names :
       Within(i, MaxFrags) /\ Do_pseudoElement(i, v)

Spec == Init /\ [][Next]_vars

(* One builder instance, called until it first throws. *)
NextChain ==
  \/ \E v \in Names : heap = <<>> /\ cssSelectorBuilder_element(v)
  \/ \E v \in Names : heap = <<>> /\ cssSelectorBuilder_id(v)
  \/ \E v \in Names : heap = <<>> /\ cssSelectorBuilder_class(v)
  \/ \E v \in Names : heap = <<>> /\ cssSelectorBuilder_attr(v)
  \/ \E v \in Names : heap = <<>> /\ cssSelectorBuilder_pseudoClass(v)
  \/ \E v \in Names : heap = <<>> /\ cssSelectorBuilder_pseudoElement(v)
  \/ \E i \in Instances, v \in Names : Fresh(i, MaxChain) /\ Do_element(i, v)
  \/ \E i \in Instances, v \in Names : Fresh(i, MaxChain) /\ Do_id(i, v)
  \/ \E i \in Instances, v \in Names : Fresh(i, MaxChain) /\ Do_class(i, v)
  \/ \E i \in Instances, v \in Names : Fresh(i, MaxChain) /\ Do_attr(i, v)
  \/ \E i \in Instances, v \in Names :
       Fresh(i, MaxChain) /\ Do_pseudoClass(i, v)
  \/ \E i \in Instances, v \in Names :
       Fresh(i, MaxChain) /\ Do_pseudoElement(i, v)

SpecChain == Init /\ [][NextChain]_vars

(* One builder instance, rendered between its calls, combine among them;  *)
(* once it has thrown it is only rendered.                                *)
NextRender ==
  \/ \E v \in Values : heap = <<>> /\ cssSelectorBuilder_element(v)
  \/ \E v \in Values : heap = <<>> /\ cssSelectorBuilder_id(v)
  \/ \E v \in Values : heap = <<>> /\ cssSelectorBuilder_class(v)
  \/ \E v \in Values : heap = <<>> /\ cssSelectorBuilder_attr(v)
  \/ \E v \in Values : heap = <<>> /\ cssSelectorBuilder_pseudoClass(v)
  \/ \E v \in Values : heap = <<>> /\ cssSelectorBuilder_pseudoElement(v)
  \/ \E i \in Instances, v \in Values : Fresh(i, MaxShort) /\ Do_element(i, v)
  \/ \E i \in Instances, v \in Values : Fresh(i, MaxShort) /\ Do_id(i, v)
  \/ \E i \in Instances, v \in Values : Fresh(i, MaxShort) /\ Do_class(i, v)
  \/ \E i \in Instances, v \in Values : Fresh(i, MaxShort) /\ Do_attr(i, v)
  \/ \E i \in Instances, v \in Values :
       Fresh(i, MaxShort) /\ Do_pseudoClass(i, v)
  \/ \E i \in Instances, v \in Values :
       Fresh(i, MaxShort) /\ Do_pseudoElement(i, v)
  \/ \E i \in Instances : Do_stringify(i)
  \/ \E i \in Instances, a \in Instances, b \in Instances, c \in Combinators :
       Fresh(i, MaxShort) /\ Do_combine(i, a, c, b)

SpecRender == Init /\ [][NextRender]_vars

(* Several instances, combined by the facade; few calls in all, and an     *)
(* instance that has thrown receives no further fragment call.            *)
NextCombine ==
  \/ \E v \in Names : Budget /\ cssSelectorBuilder_element(v)
  \/ \E v \in Names : Budget /\ cssSelectorBuilder_id(v)
  \/ \E v \in Names : Budget /\ cssSelectorBuilder_class(v)
  \/ \E v \in Names : Budget /\ cssSelectorBuilder_attr(v)
  \/ \E v \in Names : Budget /\ cssSelectorBuilder_pseudoClass(v)
  \/ \E v \in Names : Budget /\ cssSelectorBuilder_pseudoElement(v)
  \/ \E a \in Instances, b \in Instances, c \in Combinators :
       Budget /\ cssSelectorBuilder_combine(a, c, b)
  \/ \E i \in Instances, v \in Names :
       Budget /\ Fresh(i, MaxCalls) /\ Do_element(i, v)
  \/ \E i \in Instances, v \in Names :
       Budget /\ Fresh(i, MaxCalls) /\ Do_id(i, v)
  \/ \E i \in Instances, v \in Names :
       Budget /\ Fresh(i, MaxCalls) /\ Do_class(i, v)
  \/ \E i \in Instances, v \in Names :
       Budget /\ Fresh(i, MaxCalls) /\ Do_attr(i, v)
  \/ \E i \in Instances, v \in Names :
       Budget /\ Fresh(i, MaxCalls) /\ Do_pseudoClass(i, v)
  \/ \E i \in Instances, v \in Names :
       Budget /\ Fresh(i, MaxCalls) /\ Do_pseudoElement(i, v)

SpecCombine == Init /\ [][NextCombine]_vars

(* The rectangle: made once, then assigned to and measured in any order. *)
InitRect == NoBuilder /\ NoRectangle /\ NoCodec

NextRect ==
  \/ \E w \in Sides, h \in Sides : Make_Rectangle(w, h)
  \/ \E w \in Sides : Set_width(w)
  \/ \E h \in Sides : Set_height(h)
  \/ Call_getArea

SpecRect == InitRect /\ [][NextRect]_vars

(* The codec: any value of the universe, serialized and read back. *)
InitCodec ==
  /\ NoBuilder /\ NoRectangle
  /\ obj \in Universe
  /\ json = <<>>
  /\ back = <<>>

NextCodec ==
  \/ Do_getJSON
  \/ \E proto \in Protos : Do_fromJSON(proto)

SpecCodec == InitCodec /\ [][NextCodec]_vars

(* ============================== properties ============================= *)
\* the order of the categories in a selector (doc comment, line 71)
Cat(kind) ==
  CASE kind = "element" -> 1
    [] kind = "id" -> 2
    [] kind = "class" -> 3
    [] kind = "attr" -> 4
    [] kind = "pseudoClass" -> 5
    [] kind = "pseudoElement" -> 6

\* the place of a marker in that order
MarkerRank(prev) ==
  CASE prev = "" -> 0
    [] prev = "element" -> 1
    [] prev = "id" -> 2
    [] prev = "attr" -> 4
    [] prev = "pscl" -> 5
    [] prev = "psel" -> 6

Count(l, kind) == Cardinality({j \in 1..Len(l) : l[j].kind = kind})

LastKind(l) == l[Len(l)].kind

OnlyFragments(l) == \A j \in 1..Len(l) : l[j].kind \in FragOps

NonDecreasing(l) == \A j \in 1..(Len(l) - 1) : Cat(l[j].kind) <= Cat(l[j + 1].kind)

\* a fragment as the selector syntax writes it
Prefixed(kind, value) ==
  CASE kind = "element" -> value
    [] kind = "id" -> <<"#">> \o value
    [] kind = "class" -> <<".">> \o value
    [] kind = "attr" -> <<"[">> \o value \o <<"]">>
    [] kind = "pseudoClass" -> <<":">> \o value
    [] kind = "pseudoElement" -> <<":", ":">> \o value

\* the text a log of calls stands for, read from left to right
RECURSIVE RenderLog(_)
RenderLog(l) ==
  IF l = <<>> THEN <<>>
  ELSE LET e == Head(l) IN
    (IF e.kind = "combine"
     THEN RenderLog(e.left) \o <<" ">> \o e.value \o <<" ">> \o RenderLog(e.right)
     ELSE Prefixed(e.kind, e.value))
    \o RenderLog(Tail(l))

IsPrefix(p, t) == Len(p) <= Len(t) /\ SubSeq(t, 1, Len(p)) = p

\* C1 (as claimed): a fragment call whose category is strictly lower than
\* that of the fragment appended last throws (the order error, or the
\* cardinality error when its kind is already present) and appends
\* nothing, and a call that returns never moves the marker backwards.
C1_LowerCategoryRejected ==
  [][\A i \in Instances, v \in Names, op \in FragOps :
       Call(op, i, v) =>
         /\ (log[i] # <<>> /\ Cat(op) < Cat(LastKind(log[i]))) =>
              /\ result' # "ok"
              /\ (Count(log[i], op) = 0 => result' = OrderError)
              /\ heap'[i].string = heap[i].string
         /\ result' = "ok" =>
              MarkerRank(heap'[i].prev) >= MarkerRank(heap[i].prev)]_vars

\* C2 (as claimed): when element, id or pseudoElement has been appended
\* once, the next call of the same method throws the cardinality error; a
\* first id() call on an instance that holds a class throws the order error.
C2_RepeatIsCardinalityError ==
  [][\A i \in Instances, v \in Names :
       /\ \A op \in Singular :
            (Call(op, i, v) /\ Count(log[i], op) = 1 /\ op \in recent[i]) =>
               result' = CardinalityError
       /\ (Call("id", i, v) /\ heap[i].idc = 0 /\ Count(log[i], "class") > 0) =>
               result' = OrderError]_vars

\* C3 (as claimed): whatever calls an instance received, thrown ones
\* included, it holds at most one element, one id and one pseudo-element.
C3_AtMostOneOfEach ==
  \A i \in Instances : \A kind \in Singular : Count(log[i], kind) <= 1

\* C4: on an instance none of whose calls has thrown, a fragment call that
\* keeps the categories in non-decreasing order and element, id and
\* pseudoElement at one occurrence at most returns normally; so does the
\* first call, made through the facade.
C4_OrderedChainSucceeds ==
  [][/\ \A i \in Instances, v \in Names, op \in FragOps :
          (/\ Call(op, i, v)
           /\ clean[i]
           /\ OnlyFragments(log[i])
           /\ NonDecreasing(Append(log[i], Entry(op, v, <<>>, <<>>)))
           /\ \A kind \in Singular :
                Count(Append(log[i], Entry(op, v, <<>>, <<>>)), kind) <= 1)
          => result' = "ok"
     /\ \A v \in Names, op \in FragOps :
          Facade(op, v) => result' = "ok" /\ Len(heap') = Len(heap) + 1]_vars

Kinds(l) == [j \in 1..Len(l) |-> l[j].kind]

\* C4 witness: all six categories appended in order, class and pseudoClass
\* twice, no call having thrown
C4_Witness ==
  \E i \in Instances :
     /\ clean[i]
     /\ Kinds(log[i]) = <<"element", "id", "class", "class", "attr",
                          "pseudoClass", "pseudoClass", "pseudoElement">>

\* C5: the text stringify() returns for an instance built by fragment
\* calls is the concatenation, in the order of the calls that returned,
\* of the values each with the prefix of its category.
C5_TextIsPrefixedConcatenation ==
  \A i \in Instances :
     OnlyFragments(log[i]) => stringify(heap[i]).ret = RenderLog(log[i])

\* C5 witness: '#a.b.a' has been built and returned by stringify()
C5_Witness ==
  \E i \in Instances :
     /\ Kinds(log[i]) = <<"id", "class", "class">>
     /\ rendered[i] = << <<"#", "a", ".", "b", ".", "a">> >>
     /\ stringify(heap[i]).ret = <<"#", "a", ".", "b", ".", "a">>

\* C6: the instance cssSelectorBuilder.combine(a, c, b) returns renders as
\* the text of a, a space, c as given, a space and the text of b; and every
\* instance, results of nested combine included, renders as its calls and
\* those of its operands read from left to right.
C6_CombineConcatenates ==
  /\ [][\A a \in Instances, b \in Instances, c \in Combinators :
          cssSelectorBuilder_combine(a, c, b) =>
            stringify(heap'[Len(heap')]).ret =
              stringify(heap[a]).ret \o <<" ">> \o c \o <<" ">>
                \o stringify(heap[b]).ret]_vars
  /\ [](\A i \in Instances : stringify(heap[i]).ret = RenderLog(log[i]))

\* C6 witness: combine(x, ' ', combine(x, '+', x)) with x = element('a')
C6_Witness ==
  \E i \in Instances :
     /\ Len(log[i]) = 1
     /\ log[i][1].kind = "combine"
     /\ log[i][1].right # <<>>
     /\ log[i][1].right[1].kind = "combine"
     /\ heap[i].string = <<"a", " ", " ", " ", "a", " ", "+", " ", "a">>

\* the accumulator the constructor is to build for the facade
EmptyAccumulator ==
  [string |-> <<>>, idc |-> 0, selector |-> 0, psel |-> 0, prev |-> ""]

\* the object the calls of log l build when applied to an accumulator
RECURSIVE Replay(_, _)
Replay(t, l) ==
  IF l = <<>> THEN t
  ELSE LET e == Head(l) IN
    Replay(IF e.kind = "combine"
           THEN [t EXCEPT !.string = @ \o RenderLog(<<e>>)]
           ELSE Invoke(e.kind, t, e.value).obj,
           Tail(l))

\* C7: a facade call builds on an empty accumulator; a step changes one
\* instance at most and a facade call none of those that exist; so an
\* instance none of whose calls has thrown is what its own calls alone build.
C7_InstancesIndependent ==
  /\ [][/\ \A v \in Names, op \in FragOps :
             (Facade(op, v) /\ result' = "ok") =>
                heap'[Len(heap')] = Invoke(op, EmptyAccumulator, v).obj
        /\ \A a \in Instances, b \in Instances, c \in Combinators :
             cssSelectorBuilder_combine(a, c, b) =>
                [heap'[Len(heap')] EXCEPT !.string = <<>>] = EmptyAccumulator
        /\ Len(heap') > Len(heap) => \A i \in Instances : heap'[i] = heap[i]
        /\ \A i \in Instances, j \in Instances :
             i # j => heap'[i] = heap[i] \/ heap'[j] = heap[j]]_vars
  /\ [](\A i \in Instances : clean[i] => heap[i] = Replay(EmptyAccumulator, log[i]))

\* C7 witness: two instances side by side, one of them called twice
C7_Witness ==
  /\ Len(heap) = 2
  /\ Kinds(log[1]) = <<"id", "class">>
  /\ Kinds(log[2]) = <<"element">>
  /\ heap[1].string = <<"#", "a", ".", "a">>
  /\ heap[2].string = <<"a">>

\* C8: stringify() leaves the instance as it was and returns its text, and
\* the text an earlier stringify() returned is a prefix of the text a later
\* one returns.
C8_StringifyReadsOnly ==
  /\ [][\A i \in Instances :
          Do_stringify(i) =>
            /\ heap' = heap
            /\ rendered'[i] = <<heap[i].string>>]_vars
  /\ [](\A i \in Instances :
          rendered[i] # <<>> => IsPrefix(rendered[i][1], stringify(heap[i]).ret))

\* C8 witness: an instance rendered as '#a' and then appended to
C8_Witness ==
  \E i \in Instances :
     /\ rendered[i] = << <<"#", "a">> >>
     /\ heap[i].string = <<"#", "a", ".", "b">>

\* C9: the object exposes the width and height passed or assigned last,
\* and getArea() returns their product.
C9_AreaIsProduct ==
  /\ rect # <<>> =>
       /\ rect[1].width = assigned[1].width
       /\ rect[1].height = assigned[1].height
  /\ area # <<>> => area[1] = assigned[1].width * assigned[1].height

\* C9 witness: getArea() returned -12 after an assignment
C9_Witness ==
  /\ rect # <<>> /\ area = <<0 - 12>>
  /\ assigned[1].changed
  /\ rect[1].width = 0 - 3 /\ rect[1].height = 4

\* the own fields of x are those of v
SameOwnFields(x, v) == [x EXCEPT !.proto = v.proto] = v

\* fromJSON returned a value with the fields of obj and the template given
RoundTrips ==
  /\ back[1].out.res = "ok"
  /\ SameOwnFields(back[1].out.val, obj)
  /\ back[1].out.val.proto = back[1].template

\* C10 (as claimed): for every value made of objects, arrays and
\* primitives, fromJSON(proto, getJSON(v)) has the own fields of v and
\* proto as its prototype.
C10_RoundTripOfAnyValue == back # <<>> => RoundTrips

\* values JSON writes without loss: finite numbers, strings, booleans,
\* null, and the arrays and objects made of them
RECURSIVE Representable(_)
Representable(v) ==
  /\ v.t \in {"number", "string", "boolean", "null", "array", "object"}
  /\ \A j \in 1..Len(v.kids) : Representable(v.kids[j])

\* C10 (amended): the same, for every object or array v made of objects,
\* arrays, strings, booleans, null and finite numbers.
C10_RoundTripOfJSONValue ==
  (back # <<>> /\ IsObject(obj) /\ Representable(obj)) => RoundTrips

\* C10 witness: {a: '"\', b: [12]} read back with a template that has a
\* member a of its own
C10_Witness ==
  /\ back # <<>>
  /\ obj = Obj(<< <<"a">>, <<"b">> >>, <<Str(<<"\"", "\\">>), Arr(<<Num(12)>>)>>)
  /\ back[1].template = "Circle.prototype"
  /\ back[1].out.res = "ok"

\* C11: cssSelectorBuilder.combine(a, c, b) leaves the text, the three
\* counters and the marker of a and of b as they were, and a fragment call
\* on an instance, an operand of an earlier combine included, changes no
\* other instance, so the text of the combined instance stays as it was.
C11_CombineLeavesOperands ==
  [][/\ \A a \in Instances, b \in Instances, c \in Combinators :
          cssSelectorBuilder_combine(a, c, b) =>
            /\ heap'[a] = heap[a]
            /\ heap'[b] = heap[b]
     /\ \A i \in Instances, v \in Names, op \in FragOps :
          Call(op, i, v) =>
            \A j \in Instances \ {i} :
               (log[j] # <<>> /\ log[j][1].kind = "combine") =>
                  /\ heap'[j].string = heap[j].string
                  /\ stringify(heap'[j]).ret = RenderLog(log[j])]_vars

\* C11 witness: combine(x, '+', x) with x = element('a'), and x appended
\* to afterwards: x reads 'a#a', the combined instance still 'a + a'
C11_Witness ==
  /\ Len(heap) = 2
  /\ Kinds(log[1]) = <<"element", "id">>
  /\ heap[1].string = <<"a", "#", "a">>
  /\ Kinds(log[2]) = <<"combine">>
  /\ Kinds(log[2][1].left) = <<"element">>
  /\ heap[2].string = <<"a", " ", "+", " ", "a">>

\* C12: a fragment call that throws leaves the text of the instance as it
\* was; one that returns leaves it as the text before followed by the one
\* fragment with its prefix; the text before is always a prefix of the
\* text after. The first call, made through the facade, starts from the
\* empty text.
C12_TextAppendOnly ==
  [][/\ \A i \in Instances, v \in Names, op \in FragOps :
          Call(op, i, v) =>
            /\ result' # "ok" => heap'[i].string = heap[i].string
            /\ result' = "ok" =>
                 heap'[i].string = heap[i].string \o Prefixed(op, v)
            /\ IsPrefix(heap[i].string, heap'[i].string)
     /\ \A v \in Names, op \in FragOps :
          (Facade(op, v) /\ result' = "ok") =>
             heap'[Len(heap')].string = Prefixed(op, v)]_vars

\* C12 witness: 'a::a' built, then a pseudoElement call that threw and
\* left that text in place
C12_Witness ==
  \E i \in Instances :
     /\ Kinds(log[i]) = <<"element", "pseudoElement">>
     /\ ~clean[i]
     /\ result = CardinalityError
     /\ heap[i].psel = 2
     /\ heap[i].string = <<"a", ":", ":", "a">>

\* C13 (as claimed): a fragment call that throws leaves the three counters
\* and the marker of the instance as they were, and the cardinality error
\* is thrown only by a call whose kind the text already holds.
C13_ThrowLeavesCountersAndMarker ==
  [][\A i \in Instances, v \in Names, op \in FragOps :
       (Call(op, i, v) /\ result' # "ok") =>
          /\ heap'[i].idc = heap[i].idc
          /\ heap'[i].selector = heap[i].selector
          /\ heap'[i].psel = heap[i].psel
          /\ heap'[i].prev = heap[i].prev
          /\ result' = CardinalityError => Count(log[i], op) >= 1]_vars

\* C14: the instance cssSelectorBuilder.combine returns has its three
\* counters at zero and no marker, whatever its operands hold, and the
\* first fragment call on it, of any category, returns normally and leaves
\* the combined text followed by the fragment with its prefix.
C14_CombinedStartsEmpty ==
  /\ [][/\ \A a \in Instances, b \in Instances, c \in Combinators :
             cssSelectorBuilder_combine(a, c, b) =>
               LET t == heap'[Len(heap')] IN
                 /\ t.idc = 0 /\ t.selector = 0 /\ t.psel = 0
                 /\ t.prev = ""
        /\ \A i \in Instances, v \in Names, op \in FragOps :
             (Call(op, i, v) /\ Kinds(log[i]) = <<"combine">> /\ clean[i]) =>
               /\ result' = "ok"
               /\ heap'[i].string =
                    RenderLog(log[i][1].left) \o <<" ">> \o log[i][1].value
                      \o <<" ">> \o RenderLog(log[i][1].right)
                      \o Prefixed(op, v)]_vars
  /\ [](\A i \in Instances :
          (Kinds(log[i]) = <<"combine">> /\ clean[i]) =>
             /\ heap[i].idc = 0 /\ heap[i].selector = 0 /\ heap[i].psel = 0
             /\ heap[i].prev = "")

\* C14 witness: combine(x, '+', x) with x = pseudoElement('a'), then
\* element('a') on the result: '::a + ::aa'
C14_Witness ==
  \E i \in Instances :
     /\ Kinds(log[i]) = <<"combine", "element">>
     /\ Kinds(log[i][1].right) = <<"pseudoElement">>
     /\ heap[i].selector = 1
     /\ heap[i].string =
          <<":", ":", "a", " ", "+", " ", ":", ":", "a", "a">>

\* C15 (as claimed): in every state each of the counters selector, idc
\* and psel of an instance is at most 1 and is the number of element, id
\* and pseudo-element fragments its text holds.
C15_CountersMatchText ==
  \A i \in Instances :
     /\ heap[i].selector <= 1 /\ heap[i].selector = Count(log[i], "element")
     /\ heap[i].idc <= 1 /\ heap[i].idc = Count(log[i], "id")
     /\ heap[i].psel <= 1 /\ heap[i].psel = Count(log[i], "pseudoElement")

\* C16: the builder whose class() records a marker 'class' of its own,
\* given the same calls, returns or throws as this builder does at every
\* call, with the same message when it throws and the same text when it
\* returns; the two hold the same text and counters in every state, and
\* differ in the marker at most.
C16_ClassMarkerUnobservable ==
  /\ [][/\ \A i \in Instances, v \in Names, op \in FragOps :
             Call(op, i, v) =>
               LET r == InvokeVariant(op, twin[i], v) IN
                 /\ r.res = result'
                 /\ stringify(r.obj).ret = stringify(heap'[i]).ret
        /\ \A v \in Names, op \in FragOps :
             Facade(op, v) =>
               LET r == InvokeVariant(op, constructor(<<>>), v) IN
                 /\ r.res = result'
                 /\ result' = "ok" =>
                      stringify(r.obj).ret = stringify(heap'[Len(heap')]).ret]_vars
  /\ [](/\ Len(twin) = Len(heap)
        /\ \A i \in Instances :
             [twin[i] EXCEPT !.prev = ""] = [heap[i] EXCEPT !.prev = ""])

\* C16 witness: class('a') then id('a'): the markers differ, 'class' in
\* the variant and 'id' here, and id() has thrown the order error in both
C16_Witness ==
  \E i \in Instances :
     /\ Kinds(log[i]) = <<"class">>
     /\ heap[i].prev = "id"
     /\ twin[i].prev = "class"
     /\ heap[i].idc = 1
     /\ twin[i].idc = 1
     /\ result = OrderError

====
